---- MODULE Spec2Model ----
(***************************************************************************)
(* The investment web service (Express route handlers over a Mongoose     *)
(* User model) as a state machine.  Every await of a handler is a step    *)
(* boundary, so requests interleave exactly where the event loop lets     *)
(* them.  The document store is the users collection; the price provider, *)
(* the transaction sender and the database are an environment that may    *)
(* answer or reject at each call.                                         *)
(***************************************************************************)
EXTENDS Integers, Sequences, FiniteSets, TLC

(* ------------------------------ bounds -------------------------------- *)

\* The wall clock runs over 0..MaxTime.
MaxTime == 1

\* Request slots: the requests that may be in flight at the same time.
Reqs == {1, 2}

\* Wallet addresses a client may send: strings over the characters below,
\* <<>> being the empty / missing string.
Wallets == {<<>>, <<"a">>, <<"A">>}

(* ------------------------- program constants -------------------------- *)

\* '0x486BEa6B90243d2Ff3EE2723a47605C3361c3d95', character by character.
RECIPIENT_WALLET ==
  <<"0", "x", "4", "8", "6", "B", "E", "a", "6", "B", "9", "0", "2",
    "4", "3", "d", "2", "F", "f", "3", "E", "E", "2", "7", "2", "3",
    "a", "4", "7", "6", "0", "5", "C", "3", "3", "6", "1", "c", "3",
    "d", "9", "5">>

TokenId == "sonic-3"

\* An absent optional date (lastSeen?: string left out of the body).
NoDate == -1

\* new Date(s) of a string that is no date: Invalid Date.
InvalidDate == -2

\* An absent price (no price field in a reply).
NoPrice == -9

(* ------------------------------ strings ------------------------------- *)

\* String.prototype.toLowerCase, character by character.
LowerChar(c) ==
  CASE c = "A" -> "a"
    [] c = "B" -> "b"
    [] OTHER -> c

toLowerCase(s) == [i \in DOMAIN s |-> LowerChar(s[i])]

\* new Date(string): the time an ISO string denotes, Invalid Date otherwise.
\* A string is given by the time it denotes (>= 0) or InvalidDate.
DateParse(s) == IF s >= 0 THEN s ELSE InvalidDate

(* ------------------------------ schema -------------------------------- *)

\* The paths of userSchema.  investmentSchema is defined beside it but is
\* no path of userSchema.
SchemaPaths == {"walletAddress", "firstSeen", "lastSeen"}

\* Paths with default: Date.now.
DefaultPaths == {"firstSeen", "lastSeen"}

\* walletAddress: { lowercase: true }: the setter applied to the value of
\* the path, in documents and in query filters.
SchemaSetter(addr) == toLowerCase(addr)

\* Mongoose strict mode (the default): update paths that are no schema
\* path are dropped from the update before it is sent.
castUpdate(u) == [p \in (DOMAIN u) \cap SchemaPaths |-> u[p]]

\* A cast update with an Invalid Date makes the query reject (CastError).
CastFails(u) == \E p \in DOMAIN u : u[p].op = "$set" /\ u[p].val = InvalidDate

\* setDefaultsOnInsert: the option when given, true otherwise (the default
\* of Mongoose 6 and later).
SetDefaultsOnInsert(opts) ==
  IF "setDefaultsOnInsert" \in DOMAIN opts THEN opts.setDefaultsOnInsert ELSE TRUE

Upsert(opts) == IF "upsert" \in DOMAIN opts THEN opts.upsert ELSE FALSE

(* --------------------------- document store --------------------------- *)

\* The first document whose walletAddress equals addr, 0 when there is none.
FindIdx(us, addr) ==
  IF \E i \in 1..Len(us) : us[i].walletAddress = addr
  THEN CHOOSE i \in 1..Len(us) :
         /\ us[i].walletAddress = addr
         /\ \A j \in 1..(i - 1) : us[j].walletAddress # addr
  ELSE 0

\* The update operators applied to a document.
ApplyUpdate(doc, u) ==
  [p \in (DOMAIN doc) \cup (DOMAIN u) |->
     IF p \in DOMAIN u
     THEN IF u[p].op = "$push"
          THEN Append(IF p \in DOMAIN doc THEN doc[p] ELSE <<>>, u[p].val)
          ELSE u[p].val
     ELSE doc[p]]

\* The document an upsert inserts: the filter's equality, the update, and
\* the schema defaults (Date.now, taken when the query was built at time t).
InsertDoc(addr, u, opts, t) ==
  LET base == ApplyUpdate([p \in {"walletAddress"} |-> addr], u)
      dflt == IF SetDefaultsOnInsert(opts) THEN DefaultPaths \ DOMAIN base ELSE {}
  IN  [p \in (DOMAIN base) \cup dflt |-> IF p \in DOMAIN base THEN base[p] ELSE t]

\* A collection without the unique index: every insert is admitted.
NoUniqueIndex(us, addr) == TRUE

\* walletAddress: { unique: true }: the unique index admits a document only
\* when no stored document has its walletAddress.
UniqueIndexAdmits(us, addr) == \A i \in 1..Len(us) : us[i].walletAddress # addr

\* The investment history of a stored document.
History(doc) == IF "investments" \in DOMAIN doc THEN doc.investments ELSE <<>>

(* --------------------------- collaborators ---------------------------- *)

\* What the price provider may answer: a rejection, a body without the
\* token's entry, or a body with a usd value.
ProviderReplies ==
  {[kind |-> "throw", usd |-> NoPrice], [kind |-> "nokey", usd |-> NoPrice]}
  \cup {[kind |-> "ok", usd |-> p] : p \in {0, 2}}

\* Identifiers the transaction sender may return.
TxHashes == {"0xaa", "0xbb"}

\* sendTransaction: rejects, or returns a transaction identifier.
SendTransactionResults == {[ok |-> FALSE, hash |-> ""]} \cup {[ok |-> TRUE, hash |-> h] : h \in TxHashes}

(* ------------------------------- state -------------------------------- *)

VARIABLES
  now,      \* the wall clock
  users,    \* the users collection, in insertion order
  pc,       \* each request's position in its handler
  req,      \* each request's route and body
  loc,      \* each handler's local variables
  calls,    \* the external calls each request made, in order
  errs,     \* what went wrong inside each request's handler
  res,      \* each request's responses
  client    \* the page: its globals and processInvestment's position and locals

vars == <<now, users, pc, req, loc, calls, errs, res, client>>

IdleReq ==
  [route |-> "none", amount |-> 0, riskLevel |-> "", walletAddress |-> <<>>,
   lastSeen |-> NoDate, investment |-> <<>>]

IdleLoc ==
  [tokenPrice |-> NoPrice, txHash |-> "", txTo |-> <<>>, upd |-> <<>>, ts |-> NoDate]

IdleRes ==
  [n |-> 0, status |-> 0, success |-> FALSE, transactionHash |-> "",
   price |-> NoPrice, token_id |-> ""]

\* The page after init(): the globals as declared, currentPrice as
\* fetchPrice left it, the listeners registered, no investment under way.
PageLoaded(ethereum, currentPrice) ==
  [ethereum |-> ethereum, walletAddress |-> <<>>, chainId |-> "",
   currentPrice |-> currentPrice, at |-> "idle", correctChain |-> FALSE,
   success |-> FALSE, transactionHash |-> "", investBody |-> <<>>,
   updateStatus |-> 0]

\* The server started, the store empty.
ServerStarted ==
  /\ now = 0
  /\ users = <<>>
  /\ pc = [r \in Reqs |-> "idle"]
  /\ req = [r \in Reqs |-> IdleReq]
  /\ loc = [r \in Reqs |-> IdleLoc]
  /\ calls = [r \in Reqs |-> <<>>]
  /\ errs = [r \in Reqs |-> {}]
  /\ res = [r \in Reqs |-> IdleRes]

Init ==
  /\ ServerStarted
  /\ client = PageLoaded(TRUE, 0)

\* res.status(s).json(body): one more response of request r.
Json(r, s, ok, hash, price, tok) ==
  [res EXCEPT ![r] = [n |-> @.n + 1, status |-> s, success |-> ok,
                      transactionHash |-> hash, price |-> price, token_id |-> tok]]

(* ------------------------ GET /api/fetchsonicprice --------------------- *)

\* The route's response to what the provider answered: 200 with the usd
\* value of the token's entry; 500 when the provider rejects or the body
\* has no entry for the token (reading .usd of undefined throws).
FetchSonicPrice(p) ==
  IF p.kind = "ok"
  THEN [status |-> 200, success |-> TRUE, price |-> p.usd, token_id |-> TokenId]
  ELSE [status |-> 500, success |-> FALSE, price |-> NoPrice, token_id |-> ""]

\* What a rejected or failing provider call is recorded as.
ProviderErr(p) == IF p.kind = "throw" THEN {"providerThrow"} ELSE {"noTokenEntry"}

PriceRecv(r) ==
  /\ pc[r] = "idle"
  /\ req' = [req EXCEPT ![r] = [IdleReq EXCEPT !.route = "price"]]
  /\ pc' = [pc EXCEPT ![r] = "price"]
  /\ calls' = [calls EXCEPT ![r] = <<"price">>]
  /\ UNCHANGED <<now, users, loc, errs, res>>
  /\ UNCHANGED client

PriceReply(r) ==
  /\ pc[r] = "price"
  /\ req[r].route = "price"
  /\ \E p \in ProviderReplies :
       LET out == FetchSonicPrice(p) IN
       /\ res' = Json(r, out.status, out.success, "", out.price, out.token_id)
       /\ errs' = [errs EXCEPT ![r] = IF out.status = 200 THEN @ ELSE @ \cup ProviderErr(p)]
  /\ pc' = [pc EXCEPT ![r] = "done"]
  /\ UNCHANGED <<now, users, req, loc, calls>>
  /\ UNCHANGED client

(* --------------------------- GET /api/analyze -------------------------- *)

\* analyzeTokenRisk: resolves with an analysis or rejects.
AnalyzeTokenRiskResults == {TRUE, FALSE}

AnalyzeRecv(r) ==
  /\ pc[r] = "idle"
  /\ req' = [req EXCEPT ![r] = [IdleReq EXCEPT !.route = "analyze"]]
  /\ pc' = [pc EXCEPT ![r] = "analyze"]
  /\ calls' = [calls EXCEPT ![r] = <<"analyze">>]
  /\ UNCHANGED <<now, users, loc, errs, res>>
  /\ UNCHANGED client

AnalyzeReply(r) ==
  /\ pc[r] = "analyze"
  /\ \E ok \in AnalyzeTokenRiskResults :
       /\ res' = Json(r, IF ok THEN 200 ELSE 500, ok, "", NoPrice, IF ok THEN TokenId ELSE "")
       /\ errs' = [errs EXCEPT ![r] = IF ok THEN @ ELSE @ \cup {"analyzeThrow"}]
  /\ pc' = [pc EXCEPT ![r] = "done"]
  /\ UNCHANGED <<now, users, req, loc, calls>>
  /\ UNCHANGED client

(* --------------------------- POST /api/invest -------------------------- *)

\* The check with riskLevel forgotten.
InvestMissingAmountOnly(amount, riskLevel) == amount = 0

\* if (!amount || !riskLevel)
InvestMissing(amount, riskLevel) == amount = 0 \/ riskLevel = ""

\* The check that takes only a missing price for a failure.
FalsyPriceUndefinedOnly(p) == p = NoPrice

\* if (!tokenPrice): undefined and 0 are falsy.
FalsyPrice(p) == p = NoPrice \/ p = 0

\* The transfer addressed to the wallet the request carries.
InvestTxArgsToCaller(amount, tokenPrice, walletAddress, riskLevel) ==
  [amount |-> amount, tokenPrice |-> tokenPrice,
   walletAddress |-> walletAddress, riskLevel |-> riskLevel]

\* The argument of sendTransaction.
InvestTxArgs(amount, tokenPrice, walletAddress, riskLevel) ==
  [amount |-> amount, tokenPrice |-> tokenPrice,
   walletAddress |-> RECIPIENT_WALLET, riskLevel |-> riskLevel]

\* The update of User.findOneAndUpdate in the handler, built at time t.
InvestUpdate(amount, riskLevel, tokenPrice, txHash, t) ==
  [p \in {"investments", "lastSeen"} |->
     IF p = "investments"
     THEN [op |-> "$push",
           val |-> [amount |-> amount, riskLevel |-> riskLevel,
                    tokenPrice |-> tokenPrice, transactionHash |-> txHash,
                    timestamp |-> t]]
     ELSE [op |-> "$set", val |-> t]]

InvestOpts == [new |-> TRUE, upsert |-> TRUE]

\* The handler's last statement: 200 with the transaction hash.
InvestOk(r) == Json(r, 200, TRUE, loc[r].txHash, NoPrice, "")

\* A database failure that reaches the outer catch: 500.
InvestDbRethrow(r) == Json(r, 500, FALSE, "", NoPrice, "")

\* A failed database write inside the inner try: the inner catch logs it
\* and the handler goes on to its response.
InvestDbCatch(r) == InvestOk(r)

InvestHandle(r, amount, riskLevel, w) ==
  /\ pc[r] = "idle"
  /\ req' = [req EXCEPT ![r] = [IdleReq EXCEPT !.route = "invest", !.amount = amount,
                                  !.riskLevel = riskLevel, !.walletAddress = w]]
  /\ IF InvestMissing(amount, riskLevel)
     THEN /\ res' = Json(r, 400, FALSE, "", NoPrice, "")
          /\ errs' = [errs EXCEPT ![r] = {"missing"}]
          /\ pc' = [pc EXCEPT ![r] = "done"]
          /\ calls' = calls
     ELSE /\ pc' = [pc EXCEPT ![r] = "price"]
          /\ calls' = [calls EXCEPT ![r] = <<"price">>]
          /\ UNCHANGED <<res, errs>>
  /\ UNCHANGED <<now, users, loc>>

\* A request of any sender arrives.
InvestRecv(r) ==
  /\ \E amount \in {0, 100}, riskLevel \in {"", "low"}, w \in Wallets :
       InvestHandle(r, amount, riskLevel, w)
  /\ UNCHANGED client

\* await axios.get(.../api/fetchsonicprice): axios rejects on the route's 500.
InvestPrice(r) ==
  /\ pc[r] = "price"
  /\ req[r].route = "invest"
  /\ \E p \in ProviderReplies :
       LET out == FetchSonicPrice(p) IN
       IF out.status # 200
       THEN /\ res' = Json(r, 500, FALSE, "", NoPrice, "")
            /\ errs' = [errs EXCEPT ![r] = @ \cup ProviderErr(p)]
            /\ pc' = [pc EXCEPT ![r] = "done"]
            /\ UNCHANGED <<loc, calls>>
       ELSE IF FalsyPrice(out.price)
       THEN /\ res' = Json(r, 500, FALSE, "", NoPrice, "")
            /\ errs' = [errs EXCEPT ![r] = @ \cup {"noPrice"}]
            /\ pc' = [pc EXCEPT ![r] = "done"]
            /\ UNCHANGED <<loc, calls>>
       ELSE /\ loc' = [loc EXCEPT ![r].tokenPrice = out.price]
            /\ pc' = [pc EXCEPT ![r] = "tx"]
            /\ calls' = [calls EXCEPT ![r] = Append(@, "tx")]
            /\ UNCHANGED <<res, errs>>
  /\ UNCHANGED <<now, users, req>>
  /\ UNCHANGED client

\* await sendTransaction(...), then, with a walletAddress, the call of
\* User.findOneAndUpdate (its update is built with new Date() here).
InvestTx(r) ==
  /\ pc[r] = "tx"
  /\ \E s \in SendTransactionResults :
       LET args == InvestTxArgs(req[r].amount, loc[r].tokenPrice,
                                req[r].walletAddress, req[r].riskLevel) IN
       IF ~s.ok
       THEN /\ res' = Json(r, 500, FALSE, "", NoPrice, "")
            /\ errs' = [errs EXCEPT ![r] = @ \cup {"txThrow"}]
            /\ loc' = [loc EXCEPT ![r].txTo = args.walletAddress]
            /\ pc' = [pc EXCEPT ![r] = "done"]
            /\ calls' = calls
       ELSE IF req[r].walletAddress # <<>>
       THEN /\ loc' = [loc EXCEPT ![r].txTo = args.walletAddress,
                                  ![r].txHash = s.hash,
                                  ![r].upd = castUpdate(InvestUpdate(req[r].amount,
                                               req[r].riskLevel, loc[r].tokenPrice, s.hash, now)),
                                  ![r].ts = now]
            /\ pc' = [pc EXCEPT ![r] = "db"]
            /\ calls' = [calls EXCEPT ![r] = Append(@, "db")]
            /\ UNCHANGED <<res, errs>>
       ELSE /\ loc' = [loc EXCEPT ![r].txTo = args.walletAddress, ![r].txHash = s.hash]
            /\ res' = Json(r, 200, TRUE, s.hash, NoPrice, "")
            /\ pc' = [pc EXCEPT ![r] = "done"]
            /\ UNCHANGED <<calls, errs>>
  /\ UNCHANGED <<now, users, req>>
  /\ UNCHANGED client

\* The filter of the handlers' queries: { walletAddress: walletAddress.toLowerCase() },
\* cast by the schema.
Filter(walletAddress) == SchemaSetter(toLowerCase(walletAddress))

\* The database applies the findOneAndUpdate of the handler: the inner
\* catch swallows a rejection; a match is updated; without a match the
\* upsert goes on to insert.
InvestDb(r) ==
  /\ pc[r] = "db"
  /\ req[r].route = "invest"
  /\ LET addr == Filter(req[r].walletAddress)
         i == FindIdx(users, addr) IN
     \/ /\ errs' = [errs EXCEPT ![r] = @ \cup {"dbThrow"}]
        /\ res' = InvestDbCatch(r)
        /\ pc' = [pc EXCEPT ![r] = "done"]
        /\ users' = users
     \/ /\ i > 0
        /\ users' = [users EXCEPT ![i] = ApplyUpdate(@, loc[r].upd)]
        /\ res' = InvestOk(r)
        /\ pc' = [pc EXCEPT ![r] = "done"]
        /\ errs' = errs
     \/ /\ i = 0
        /\ Upsert(InvestOpts)
        /\ pc' = [pc EXCEPT ![r] = "ins"]
        /\ UNCHANGED <<users, res, errs>>
  /\ UNCHANGED <<now, req, loc, calls>>
  /\ UNCHANGED client

\* The insert of the upsert.  When the unique index refuses it (another
\* upsert inserted the address meanwhile) the server either retries the
\* operation as an update or reports the duplicate key.
InvestIns(r) ==
  /\ pc[r] = "ins"
  /\ req[r].route = "invest"
  /\ LET addr == Filter(req[r].walletAddress) IN
     \/ /\ UniqueIndexAdmits(users, addr)
        /\ users' = Append(users, InsertDoc(addr, loc[r].upd, InvestOpts, loc[r].ts))
        /\ res' = InvestOk(r)
        /\ errs' = errs
     \/ /\ ~UniqueIndexAdmits(users, addr)
        /\ users' = [users EXCEPT ![FindIdx(users, addr)] = ApplyUpdate(@, loc[r].upd)]
        /\ res' = InvestOk(r)
        /\ errs' = errs
     \/ /\ ~UniqueIndexAdmits(users, addr)
        /\ errs' = [errs EXCEPT ![r] = @ \cup {"dbThrow"}]
        /\ res' = InvestDbCatch(r)
        /\ users' = users
  /\ pc' = [pc EXCEPT ![r] = "done"]
  /\ UNCHANGED <<now, req, loc, calls>>
  /\ UNCHANGED client

(* ---------------------------- POST /api/user --------------------------- *)

\* The body's chainId values: absent, or a chain id.
ChainIds == {"", "0xdede"}

\* The update that also writes firstSeen.
UserUpdateFirstSeen(lastSeen, chainId, t) ==
  [p \in {"lastSeen", "chainId", "firstSeen"} |->
     IF p = "lastSeen"
     THEN [op |-> "$set", val |-> IF lastSeen # NoDate THEN DateParse(lastSeen) ELSE t]
     ELSE IF p = "firstSeen" THEN [op |-> "$set", val |-> t]
     ELSE [op |-> "$set", val |-> chainId]]

\* The update of the handler, built at time t.
UserUpdate(lastSeen, chainId, t) ==
  [p \in {"lastSeen", "chainId"} |->
     IF p = "lastSeen"
     THEN [op |-> "$set", val |-> IF lastSeen # NoDate THEN DateParse(lastSeen) ELSE t]
     ELSE [op |-> "$set", val |-> chainId]]

UserOpts == [new |-> TRUE, upsert |-> TRUE, setDefaultsOnInsert |-> TRUE]

\* The check left out.
UserMissingNever(walletAddress) == FALSE

\* if (!walletAddress)
UserMissing(walletAddress) == walletAddress = <<>>

UserHandle(r, w, ls, c) ==
  /\ pc[r] = "idle"
  /\ req' = [req EXCEPT ![r] = [IdleReq EXCEPT !.route = "user", !.walletAddress = w,
                                  !.lastSeen = ls]]
  /\ IF UserMissing(w)
     THEN /\ res' = Json(r, 400, FALSE, "", NoPrice, "")
          /\ errs' = [errs EXCEPT ![r] = {"missing"}]
          /\ pc' = [pc EXCEPT ![r] = "done"]
          /\ UNCHANGED <<loc, calls>>
     ELSE /\ loc' = [loc EXCEPT ![r].upd = castUpdate(UserUpdate(ls, c, now)),
                                ![r].ts = now]
          /\ pc' = [pc EXCEPT ![r] = "db"]
          /\ calls' = [calls EXCEPT ![r] = <<"db">>]
          /\ UNCHANGED <<res, errs>>
  /\ UNCHANGED <<now, users>>

\* A request of any sender arrives.
UserRecv(r) ==
  /\ \E w \in Wallets, ls \in {NoDate, InvalidDate} \cup (0..MaxTime), c \in ChainIds :
       UserHandle(r, w, ls, c)
  /\ UNCHANGED client

UserDb(r) ==
  /\ pc[r] = "db"
  /\ req[r].route = "user"
  /\ LET addr == Filter(req[r].walletAddress)
         i == FindIdx(users, addr) IN
     \/ /\ errs' = [errs EXCEPT ![r] = @ \cup {"dbThrow"}]
        /\ res' = Json(r, 500, FALSE, "", NoPrice, "")
        /\ pc' = [pc EXCEPT ![r] = "done"]
        /\ users' = users
     \/ /\ ~CastFails(loc[r].upd)
        /\ i > 0
        /\ users' = [users EXCEPT ![i] = ApplyUpdate(@, loc[r].upd)]
        /\ res' = Json(r, 200, TRUE, "", NoPrice, "")
        /\ pc' = [pc EXCEPT ![r] = "done"]
        /\ errs' = errs
     \/ /\ ~CastFails(loc[r].upd)
        /\ i = 0
        /\ Upsert(UserOpts)
        /\ pc' = [pc EXCEPT ![r] = "ins"]
        /\ UNCHANGED <<users, res, errs>>
  /\ UNCHANGED <<now, req, loc, calls>>
  /\ UNCHANGED client

UserIns(r) ==
  /\ pc[r] = "ins"
  /\ req[r].route = "user"
  /\ LET addr == Filter(req[r].walletAddress) IN
     \/ /\ UniqueIndexAdmits(users, addr)
        /\ users' = Append(users, InsertDoc(addr, loc[r].upd, UserOpts, loc[r].ts))
        /\ res' = Json(r, 200, TRUE, "", NoPrice, "")
        /\ errs' = errs
     \/ /\ ~UniqueIndexAdmits(users, addr)
        /\ users' = [users EXCEPT ![FindIdx(users, addr)] = ApplyUpdate(@, loc[r].upd)]
        /\ res' = Json(r, 200, TRUE, "", NoPrice, "")
        /\ errs' = errs
     \/ /\ ~UniqueIndexAdmits(users, addr)
        /\ errs' = [errs EXCEPT ![r] = @ \cup {"dbThrow"}]
        /\ res' = Json(r, 500, FALSE, "", NoPrice, "")
        /\ users' = users
  /\ pc' = [pc EXCEPT ![r] = "done"]
  /\ UNCHANGED <<now, req, loc, calls>>
  /\ UNCHANGED client

(* ----------------------- POST /api/user/investment --------------------- *)

\* The investment objects a client may submit; <<>> is a body without one.
ClientInvestments ==
  {<<>>,
   <<[amount |-> 100, riskLevel |-> "low", tokenPrice |-> 2,
      transactionHash |-> "0xaa", timestamp |-> 0]>>}

\* The update without lastSeen.
UserInvestmentUpdateNoLastSeen(investment, t) ==
  [p \in {"investments"} |-> [op |-> "$push", val |-> investment]]

\* The update of the handler, built at time t.
UserInvestmentUpdate(investment, t) ==
  [p \in {"investments", "lastSeen"} |->
     IF p = "investments"
     THEN [op |-> "$push", val |-> investment]
     ELSE [op |-> "$set", val |-> t]]

\* The options with upsert, as the other two writes have it.
UserInvestmentOptsUpsert == [new |-> TRUE, upsert |-> TRUE]

UserInvestmentOpts == [new |-> TRUE]

UserInvHandle(r, w, inv) ==
  /\ pc[r] = "idle"
  /\ req' = [req EXCEPT ![r] = [IdleReq EXCEPT !.route = "userInvestment",
                                  !.walletAddress = w, !.investment = inv]]
  /\ IF w = <<>> \/ inv = <<>>
     THEN /\ res' = Json(r, 400, FALSE, "", NoPrice, "")
          /\ errs' = [errs EXCEPT ![r] = {"missing"}]
          /\ pc' = [pc EXCEPT ![r] = "done"]
          /\ UNCHANGED <<loc, calls>>
     ELSE /\ loc' = [loc EXCEPT ![r].upd = castUpdate(UserInvestmentUpdate(inv[1], now)),
                                ![r].ts = now]
          /\ pc' = [pc EXCEPT ![r] = "db"]
          /\ calls' = [calls EXCEPT ![r] = <<"db">>]
          /\ UNCHANGED <<res, errs>>
  /\ UNCHANGED <<now, users>>

\* A request of any sender arrives.
UserInvRecv(r) ==
  /\ \E w \in Wallets, inv \in ClientInvestments : UserInvHandle(r, w, inv)
  /\ UNCHANGED client

UserInvDb(r) ==
  /\ pc[r] = "db"
  /\ req[r].route = "userInvestment"
  /\ LET addr == Filter(req[r].walletAddress)
         i == FindIdx(users, addr) IN
     \/ /\ errs' = [errs EXCEPT ![r] = @ \cup {"dbThrow"}]
        /\ res' = Json(r, 500, FALSE, "", NoPrice, "")
        /\ users' = users
     \/ /\ i > 0
        /\ users' = [users EXCEPT ![i] = ApplyUpdate(@, loc[r].upd)]
        /\ res' = Json(r, 200, TRUE, "", NoPrice, "")
        /\ errs' = errs
     \/ /\ i = 0
        /\ users' = IF Upsert(UserInvestmentOpts)
                     THEN Append(users, InsertDoc(addr, loc[r].upd, UserInvestmentOpts, loc[r].ts))
                     ELSE users
        /\ errs' = [errs EXCEPT ![r] = IF users' = users THEN @ \cup {"notFound"} ELSE @]
        /\ res' = IF users' = users
                   THEN Json(r, 404, FALSE, "", NoPrice, "")
                   ELSE Json(r, 200, TRUE, "", NoPrice, "")
  /\ pc' = [pc EXCEPT ![r] = "done"]
  /\ UNCHANGED <<now, req, loc, calls>>
  /\ UNCHANGED client

(* --------------------- GET /api/user/:walletAddress -------------------- *)

\* The router matches the route only with a non-empty :walletAddress.
GetUserRecv(r) ==
  /\ pc[r] = "idle"
  /\ \E w \in Wallets \ {<<>>} :
       /\ req' = [req EXCEPT ![r] = [IdleReq EXCEPT !.route = "getUser", !.walletAddress = w]]
       /\ IF w = <<>>
          THEN /\ res' = Json(r, 400, FALSE, "", NoPrice, "")
               /\ errs' = [errs EXCEPT ![r] = {"missing"}]
               /\ pc' = [pc EXCEPT ![r] = "done"]
               /\ calls' = calls
          ELSE /\ pc' = [pc EXCEPT ![r] = "db"]
               /\ calls' = [calls EXCEPT ![r] = <<"db">>]
               /\ UNCHANGED <<res, errs>>
  /\ UNCHANGED <<now, users, loc>>
  /\ UNCHANGED client

\* User.findOne: a read.
GetUserDb(r) ==
  /\ pc[r] = "db"
  /\ req[r].route = "getUser"
  /\ LET i == FindIdx(users, Filter(req[r].walletAddress)) IN
     \/ /\ errs' = [errs EXCEPT ![r] = @ \cup {"dbThrow"}]
        /\ res' = Json(r, 500, FALSE, "", NoPrice, "")
     \/ /\ i > 0
        /\ res' = Json(r, 200, TRUE, "", NoPrice, "")
        /\ errs' = errs
     \/ /\ i = 0
        /\ errs' = [errs EXCEPT ![r] = @ \cup {"notFound"}]
        /\ res' = Json(r, 404, FALSE, "", NoPrice, "")
  /\ pc' = [pc EXCEPT ![r] = "done"]
  /\ UNCHANGED <<now, users, req, loc, calls>>
  /\ UNCHANGED client

(* ----------------------------- environment ---------------------------- *)

\* The wall clock advances.
Tick ==
  /\ now < MaxTime
  /\ now' = now + 1
  /\ UNCHANGED <<users, pc, req, loc, calls, errs, res>>
  /\ UNCHANGED client

\* The sender has the response: its slot takes the next request.
Release(r) ==
  /\ pc[r] = "done"
  /\ pc' = [pc EXCEPT ![r] = "idle"]
  /\ req' = [req EXCEPT ![r] = IdleReq]
  /\ loc' = [loc EXCEPT ![r] = IdleLoc]
  /\ calls' = [calls EXCEPT ![r] = <<>>]
  /\ errs' = [errs EXCEPT ![r] = {}]
  /\ res' = [res EXCEPT ![r] = IdleRes]
  /\ UNCHANGED <<now, users>>

\* An answered request of any sender leaves.
Retire(r) == Release(r) /\ UNCHANGED client

(* ------------------------- the page (app.js) --------------------------- *)

\* The slot the page's requests travel in; the page awaits each response
\* before its next request.
ClientSlot == CHOOSE r \in Reqs : \A q \in Reqs : r <= q

\* The account lists the wallet provider reports: none, or one account.
ProviderAccounts == {<<>>, << <<"A">> >>}

SONIC_CHAIN_ID == "57054"

\* How the provider's requests inside checkAndSwitchChain may end.
ProviderChainOutcomes ==
  {"chainIdRejected", "onSonic", "switched", "switchRejected", "added", "addRejected"}

\* checkAndSwitchChain() against a provider that behaves as out: the
\* chainId global it leaves and the boolean it returns.
checkAndSwitchChain(chainId, out) ==
  IF out = "chainIdRejected"
  THEN [chainId |-> chainId, ok |-> FALSE]
  ELSE LET read == IF out = "onSonic" THEN SONIC_CHAIN_ID ELSE "0xdede" IN
       [chainId |-> read,
        ok |-> read = SONIC_CHAIN_ID \/ out \in {"switched", "added"}]

\* handleAccountsChanged(accounts): the walletAddress global it leaves.
handleAccountsChanged(accounts) ==
  IF Len(accounts) = 0 THEN <<>> ELSE accounts[1]

\* The investment record updateUserInvestment posts.
InvestmentRecord(amount, riskLevel, transactionHash, t, currentPrice) ==
  [amount |-> amount, riskLevel |-> riskLevel, tokenPrice |-> currentPrice,
   transactionHash |-> transactionHash, timestamp |-> t]

\* The provider emits accountsChanged; checkWalletConnection's eth_accounts
\* reply at load is handled the same way.
AccountsChanged ==
  /\ client.ethereum
  /\ \E accounts \in ProviderAccounts :
       /\ client.walletAddress # handleAccountsChanged(accounts)
       /\ client' = [client EXCEPT !.walletAddress = handleAccountsChanged(accounts)]
  /\ UNCHANGED <<now, users, pc, req, loc, calls, errs, res>>

\* A click on the disconnect button, shown while a wallet is connected.
DisconnectWallet ==
  /\ client.walletAddress # <<>>
  /\ client' = [client EXCEPT !.walletAddress = <<>>]
  /\ UNCHANGED <<now, users, pc, req, loc, calls, errs, res>>

\* A confirmed click on an invest button: processInvestment up to its
\* first await.
ProcessInvestment ==
  /\ client.at = "idle"
  /\ client' =
       [client EXCEPT !.at =
          IF client.walletAddress # <<>> THEN "chain"
          ELSE IF client.ethereum THEN "requestAccounts"
          ELSE "done"]
  /\ UNCHANGED <<now, users, pc, req, loc, calls, errs, res>>

\* connectWallet: eth_requestAccounts is rejected (connectWallet returns
\* false and processInvestment returns), or answers the accounts, which
\* handleAccountsChanged takes before checkAndSwitchChain is awaited.
RequestAccounts ==
  /\ client.at = "requestAccounts"
  /\ \/ client' = [client EXCEPT !.at = "done"]
     \/ \E accounts \in ProviderAccounts \ {<<>>} :
          client' = [client EXCEPT !.walletAddress = handleAccountsChanged(accounts),
                                   !.at = "connectChain"]
  /\ UNCHANGED <<now, users, pc, req, loc, calls, errs, res>>

\* connectWallet: checkAndSwitchChain is over, its result unused, and
\* saveUserData runs: it returns at once without a walletAddress (and
\* connectWallet returns true, processInvestment going on to its own
\* checkAndSwitchChain), and posts /api/user otherwise.
ConnectChain ==
  /\ client.at = "connectChain"
  /\ \E out \in ProviderChainOutcomes :
       LET c == checkAndSwitchChain(client.chainId, out) IN
       IF client.walletAddress = <<>>
       THEN /\ client' = [client EXCEPT !.chainId = c.chainId, !.at = "chain"]
            /\ UNCHANGED <<now, users, pc, req, loc, calls, errs, res>>
       ELSE /\ client' = [client EXCEPT !.chainId = c.chainId, !.at = "saveUser"]
            /\ UserHandle(ClientSlot, client.walletAddress, now, c.chainId)

\* saveUserData has its response, whatever it says; connectWallet returns
\* true and processInvestment awaits checkAndSwitchChain.
SaveUserAnswered ==
  /\ client.at = "saveUser"
  /\ Release(ClientSlot)
  /\ client' = [client EXCEPT !.at = "chain"]

\* processInvestment: checkAndSwitchChain is over. On false it returns;
\* on true it posts /api/invest with the walletAddress global as it is now.
ChainChecked ==
  /\ client.at = "chain"
  /\ \E out \in ProviderChainOutcomes :
       LET c == checkAndSwitchChain(client.chainId, out) IN
       IF ~c.ok
       THEN /\ client' = [client EXCEPT !.chainId = c.chainId, !.correctChain = FALSE,
                                        !.at = "done"]
            /\ UNCHANGED <<now, users, pc, req, loc, calls, errs, res>>
       ELSE /\ client' = [client EXCEPT !.chainId = c.chainId, !.correctChain = TRUE,
                                        !.investBody = client.walletAddress,
                                        !.at = "invest"]
            /\ InvestHandle(ClientSlot, 100, "low", client.walletAddress)

\* processInvestment has the response of /api/invest: without success it
\* throws into its catch; with success it goes on to updateUserInvestment.
InvestAnswered ==
  /\ client.at = "invest"
  /\ client' = [client EXCEPT !.success = res[ClientSlot].success,
                              !.transactionHash = res[ClientSlot].transactionHash,
                              !.at = IF res[ClientSlot].success
                                     THEN "updateUserInvestment" ELSE "done"]
  /\ Release(ClientSlot)

\* updateUserInvestment: it returns at once without a walletAddress, and
\* posts /api/user/investment otherwise. (It runs in the turn that read the
\* response; a provider event before this step is one before that turn.)
UpdateUserInvestment ==
  /\ client.at = "updateUserInvestment"
  /\ IF client.walletAddress = <<>>
     THEN /\ client' = [client EXCEPT !.at = "done"]
          /\ UNCHANGED <<now, users, pc, req, loc, calls, errs, res>>
     ELSE /\ client' = [client EXCEPT !.at = "updating"]
          /\ UserInvHandle(ClientSlot, client.walletAddress,
                           <<InvestmentRecord(100, "low", client.transactionHash, now,
                                              client.currentPrice)>>)

\* updateUserInvestment has its response; processInvestment is over.
UpdateAnswered ==
  /\ client.at = "updating"
  /\ client' = [client EXCEPT !.updateStatus = res[ClientSlot].status, !.at = "done"]
  /\ Release(ClientSlot)

Next ==
  \/ Tick
  \/ \E r \in Reqs :
       \/ PriceRecv(r) \/ PriceReply(r)
       \/ AnalyzeRecv(r) \/ AnalyzeReply(r)
       \/ InvestRecv(r) \/ InvestPrice(r) \/ InvestTx(r) \/ InvestDb(r) \/ InvestIns(r)
       \/ UserRecv(r) \/ UserDb(r) \/ UserIns(r)
       \/ UserInvRecv(r) \/ UserInvDb(r)
       \/ GetUserRecv(r) \/ GetUserDb(r)
       \/ Retire(r)

Spec == Init /\ [][Next]_vars

\* The page in a browser with or without a wallet provider, after a
\* fetchPrice that failed or set the price.
InitClient ==
  /\ ServerStarted
  /\ client \in {PageLoaded(e, p) : e \in BOOLEAN, p \in {0, 2}}

\* The page and the server, with another browser's saveUserData requests
\* in the other slots.
NextClient ==
  \/ Tick
  \/ AccountsChanged
  \/ DisconnectWallet
  \/ ProcessInvestment
  \/ RequestAccounts
  \/ ConnectChain
  \/ SaveUserAnswered
  \/ ChainChecked
  \/ InvestAnswered
  \/ UpdateUserInvestment
  \/ UpdateAnswered
  \/ \E r \in Reqs :
       \/ InvestPrice(r) \/ InvestTx(r) \/ InvestDb(r) \/ InvestIns(r)
       \/ UserDb(r) \/ UserIns(r)
       \/ UserInvDb(r)
  \/ \E r \in Reqs \ {ClientSlot} : UserRecv(r) \/ Retire(r)

SpecClient == InitClient /\ [][NextClient]_vars

(* ------------------------------- claims -------------------------------- *)

\* Request r takes a step that ends its handler.
Answers(r) == pc[r] # "done" /\ pc'[r] = "done"

\* The stored document a request's walletAddress names, 0 when none.
UserOf(r) == FindIdx(users, toLowerCase(req[r].walletAddress))

\* C1: the store holds at most one User per lower-cased wallet address,
\* whatever requests ran and however they interleaved.
C1_OneUserPerWallet ==
  \A i, j \in 1..Len(users) :
    toLowerCase(users[i].walletAddress) = toLowerCase(users[j].walletAddress) => i = j

\* C1 witness: POST /api/user answered 200 for 'a' and for 'A', and the
\* store holds one document.
C1_Witness ==
  /\ \A r \in Reqs : pc[r] = "done" /\ req[r].route = "user" /\ res[r].status = 200
  /\ req[1].walletAddress = <<"a">>
  /\ req[2].walletAddress = <<"A">>
  /\ Len(users) = 1

\* C2: the investment history is append-only (every step leaves each stored
\* history a prefix of the new one), and a POST /api/user/investment answered
\* 200 for an existing wallet extends the history by the submitted record.
C2_AppendOnly ==
  [][/\ \A i \in 1..Len(users) :
          /\ Len(users') >= i
          /\ Len(History(users'[i])) >= Len(History(users[i]))
          /\ SubSeq(History(users'[i]), 1, Len(History(users[i]))) = History(users[i])
     /\ \A r \in Reqs :
          (/\ req[r].route = "userInvestment"
           /\ Answers(r)
           /\ res'[r].status = 200
           /\ UserOf(r) > 0)
          => History(users'[UserOf(r)])
               = Append(History(users[UserOf(r)]), req[r].investment[1])]_vars

\* C3: POST /api/user/investment for a wallet without a User leaves the
\* users collection as it was and, unless the database rejected the query,
\* answers 404, once.
C3_UnknownWallet404 ==
  [][\A r \in Reqs :
       (/\ req[r].route = "userInvestment"
        /\ pc[r] = "db"
        /\ Answers(r)
        /\ UserOf(r) = 0)
       => /\ users' = users
          /\ "dbThrow" \notin errs'[r] => (res'[r].status = 404 /\ res'[r].n = 1)]_vars

\* C3 witness: the request was answered 404 and there is still no user.
C3_Witness ==
  \E r \in Reqs :
    /\ pc[r] = "done"
    /\ req[r].route = "userInvestment"
    /\ res[r].status = 404
    /\ "dbThrow" \notin errs[r]
    /\ UserOf(r) = 0

\* C4: POST /api/invest without amount or without riskLevel is answered 400
\* and makes no external call: no price fetch, no sendTransaction, no
\* database write.
C4_MissingFields400 ==
  \A r \in Reqs :
    (req[r].route = "invest" /\ (req[r].amount = 0 \/ req[r].riskLevel = ""))
    => /\ pc[r] = "done"
       /\ res[r].status = 400
       /\ res[r].n = 1
       /\ calls[r] = <<>>

\* C4 witness: a request with an amount and no riskLevel was answered.
C4_Witness ==
  \E r \in Reqs :
    /\ req[r].route = "invest"
    /\ req[r].amount = 100
    /\ req[r].riskLevel = ""
    /\ pc[r] = "done"

\* C5: once sendTransaction returned a hash, POST /api/invest answers 200
\* with success:true and that hash, also when the database write failed.
C5_DbFailureSwallowed ==
  \A r \in Reqs :
    (req[r].route = "invest" /\ pc[r] = "done" /\ loc[r].txHash # "")
    => /\ res[r].status = 200
       /\ res[r].success
       /\ res[r].transactionHash = loc[r].txHash

\* C5 witness: the database write failed after the transaction was sent.
C5_Witness ==
  \E r \in Reqs :
    /\ req[r].route = "invest"
    /\ pc[r] = "done"
    /\ loc[r].txHash # ""
    /\ "dbThrow" \in errs[r]
    /\ calls[r] = <<"price", "tx", "db">>

\* C6: POST /api/invest with amount and riskLevel, a price obtained and an
\* identifier returned by sendTransaction answers success:true with that
\* identifier, which is not empty; and the transfer went to the fixed
\* recipient whatever walletAddress the request carried.
C6_InvestSucceeds ==
  \A r \in Reqs :
    /\ (req[r].route = "invest" /\ loc[r].txTo # <<>>) => loc[r].txTo = RECIPIENT_WALLET
    /\ (/\ req[r].route = "invest"
        /\ pc[r] = "done"
        /\ req[r].amount # 0 /\ req[r].riskLevel # ""
        /\ ~FalsyPrice(loc[r].tokenPrice)
        /\ loc[r].txHash \in TxHashes)
       => /\ res[r].success
          /\ res[r].transactionHash = loc[r].txHash
          /\ res[r].transactionHash # ""

\* C6 witness: amount 100 at low risk with a caller's wallet was answered
\* after the transaction was sent.
C6_Witness ==
  \E r \in Reqs :
    /\ req[r].route = "invest"
    /\ pc[r] = "done"
    /\ req[r].amount = 100 /\ req[r].riskLevel = "low"
    /\ req[r].walletAddress = <<"A">>
    /\ loc[r].txHash = "0xbb"
    /\ res[r].success

\* C7: a document has its firstSeen from the step that inserts it, and no
\* later step of any handler changes it.
C7_FirstSeenSetOnce ==
  [][/\ \A i \in 1..Len(users) :
          /\ Len(users') >= i
          /\ "firstSeen" \in DOMAIN users'[i]
          /\ users'[i].firstSeen = users[i].firstSeen
     /\ \A i \in (Len(users) + 1)..Len(users') :
          /\ "firstSeen" \in DOMAIN users'[i]
          /\ \E r \in Reqs : Answers(r) /\ users'[i].firstSeen = loc[r].ts]_vars

\* C7 witness: a user first seen at time 0 was written later by a
\* POST /api/invest and by a POST /api/user, and still has firstSeen 0.
C7_Witness ==
  /\ Len(users) = 1
  /\ users[1].firstSeen = 0
  /\ users[1].lastSeen > 0
  /\ pc[1] = "done" /\ req[1].route = "invest" /\ loc[1].ts > 0
  /\ calls[1] = <<"price", "tx", "db">> /\ "dbThrow" \notin errs[1]
  /\ pc[2] = "done" /\ req[2].route = "user" /\ loc[2].ts > 0 /\ res[2].status = 200

\* C8: lastSeen of a user never decreases in a step, unless the step applies
\* a POST /api/user whose client supplied a lastSeen older than the stored
\* one (the clock of the model never goes backwards).
C8_LastSeenMonotone ==
  [][\A i \in 1..Len(users) :
       \/ /\ Len(users') >= i
          /\ users'[i].lastSeen >= users[i].lastSeen
       \/ \E r \in Reqs :
            /\ Answers(r)
            /\ req[r].route = "user"
            /\ req[r].lastSeen # NoDate
            /\ req[r].lastSeen < users[i].lastSeen]_vars

\* The time of a request: the lastSeen its body carries when there is one,
\* else the time its handler built its query, else (a handler that builds
\* no update) the time of the step.
ReqTime(r) ==
  IF req[r].lastSeen # NoDate THEN req[r].lastSeen
  ELSE IF loc[r].ts # NoDate THEN loc[r].ts
  ELSE now

\* Routes whose requests name a wallet address.
WalletRoutes == {"user", "invest", "userInvestment", "getUser"}

\* C9 as stated: every request answered 200 that names an existing wallet
\* sets that user's lastSeen to the request's time.
C9_LastSeenEveryInteraction ==
  [][\A r \in Reqs :
       (/\ Answers(r)
        /\ req[r].route \in WalletRoutes
        /\ res'[r].status = 200
        /\ UserOf(r) > 0)
       => users'[UserOf(r)].lastSeen = ReqTime(r)]_vars

\* C9 amended: a request answered 200 that names an existing wallet sets
\* lastSeen to the request's time when it is a POST /api/user, a
\* POST /api/user/investment or a POST /api/invest whose database write did
\* not fail; GET /api/user/:walletAddress, and a POST /api/invest whose
\* database write failed, leave lastSeen as it is.
C9_LastSeenOnWrites ==
  [][\A r \in Reqs :
       (/\ Answers(r)
        /\ req[r].route \in WalletRoutes
        /\ res'[r].status = 200
        /\ UserOf(r) > 0)
       => LET old == users[UserOf(r)].lastSeen
              new == users'[UserOf(r)].lastSeen IN
          CASE req[r].route \in {"user", "userInvestment"} -> new = ReqTime(r)
            [] req[r].route = "invest" ->
                 new = IF "dbThrow" \in errs'[r] THEN old ELSE ReqTime(r)
            [] OTHER -> new = old]_vars

\* C9 witness: POST /api/user/investment wrote a later lastSeen, and a GET
\* for the same user was answered 200.
C9_Witness ==
  /\ Len(users) = 1
  /\ pc[1] = "done" /\ req[1].route = "userInvestment" /\ res[1].status = 200
  /\ users[1].lastSeen = loc[1].ts
  /\ users[1].firstSeen < loc[1].ts
  /\ pc[2] = "done" /\ req[2].route = "getUser" /\ res[2].status = 200

\* A required field of the route is missing from the request.
MissingField(r) ==
  CASE req[r].route = "invest" -> req[r].amount = 0 \/ req[r].riskLevel = ""
    [] req[r].route = "user" -> req[r].walletAddress = <<>>
    [] req[r].route = "userInvestment" ->
         req[r].walletAddress = <<>> \/ req[r].investment = <<>>
    [] req[r].route = "getUser" -> req[r].walletAddress = <<>>
    [] OTHER -> FALSE

\* What may be thrown or rejected inside a handler.
Thrown == {"providerThrow", "noTokenEntry", "noPrice", "txThrow", "dbThrow", "analyzeThrow"}

\* The status the uniform pattern gives a request: anything thrown or
\* rejected inside the handler is a 500.
UniformStatus(r) ==
  IF MissingField(r) THEN 400
  ELSE IF "notFound" \in errs[r] THEN 404
  ELSE IF errs[r] \cap Thrown # {} THEN 500
  ELSE 200

\* The pattern of the handlers: as UniformStatus, but a database rejection in
\* POST /api/invest is swallowed.
HandlerStatus(r) ==
  IF MissingField(r) THEN 400
  ELSE IF "notFound" \in errs[r] THEN 404
  ELSE IF errs[r] \cap (IF req[r].route = "invest" THEN Thrown \ {"dbThrow"} ELSE Thrown) # {}
       THEN 500
  ELSE 200

\* C10 as stated: one response per request, 400 / 404 / 500 / 200 by the
\* uniform pattern.
C10_UniformStatus ==
  \A r \in Reqs :
    /\ res[r].n = (IF pc[r] = "done" THEN 1 ELSE 0)
    /\ pc[r] = "done" =>
         /\ res[r].status = UniformStatus(r)
         /\ res[r].status = 500 => ~res[r].success

\* C10 amended: one response per request; 400 for a missing field, 404 for
\* an unknown wallet, 500 with success:false when the price provider, the
\* transaction sender or the database throws or rejects inside the handler,
\* except that a database rejection while POST /api/invest records the
\* investment still answers 200; 200 otherwise.
C10_HandlerStatus ==
  \A r \in Reqs :
    /\ res[r].n = (IF pc[r] = "done" THEN 1 ELSE 0)
    /\ pc[r] = "done" =>
         /\ res[r].status = HandlerStatus(r)
         /\ res[r].success = (res[r].status = 200)

\* C10 witness: a POST /api/invest whose database write was rejected and a
\* POST /api/user whose database write was rejected were both answered.
C10_Witness ==
  /\ pc[1] = "done" /\ req[1].route = "invest" /\ "dbThrow" \in errs[1] /\ res[1].status = 200
  /\ pc[2] = "done" /\ req[2].route = "user" /\ "dbThrow" \in errs[2] /\ res[2].status = 500

\* C11: whenever GET /api/fetchsonicprice answers success:true, the price of
\* the response is a positive number and token_id is 'sonic-3'.
C11_PricePositive ==
  \A r \in Reqs :
    (req[r].route = "price" /\ pc[r] = "done" /\ res[r].success)
    => /\ res[r].price > 0
       /\ res[r].token_id = TokenId

\* A sequence is a prefix of another.
IsPrefix(s, t) == Len(s) <= Len(t) /\ SubSeq(t, 1, Len(s)) = s

\* The failures of POST /api/invest before its database write.
InvestEarlyFailures == {"providerThrow", "noTokenEntry", "noPrice", "txThrow"}

RecordsOf(w, transactionHash) ==
  LET i == FindIdx(users, toLowerCase(w))
      h == IF i = 0 THEN <<>> ELSE History(users[i])
  IN  {k \in 1..Len(h) : h[k].transactionHash = transactionHash}

\* C13: when processInvestment is over after a successful POST /api/invest
\* that carried the connected walletAddress and an updateUserInvestment the
\* server answered 200, the history of that wallet holds exactly one
\* investment record with the transaction hash of the investment.
C13_OneRecordPerInvestment ==
  ( /\ client.at = "done"
    /\ client.success
    /\ client.investBody # <<>>
    /\ client.updateStatus = 200 )
  => Cardinality(RecordsOf(client.investBody, client.transactionHash)) = 1

\* C14: while a POST /api/invest of processInvestment is under way, the
\* request carries a walletAddress that is not null, and the
\* checkAndSwitchChain before it returned true.
C14_InvestCarriesWallet ==
  client.at = "invest"
  => /\ req[ClientSlot].route = "invest"
     /\ req[ClientSlot].walletAddress # <<>>
     /\ client.correctChain

====
